---- MODULE Spec2Model ----
(***************************************************************************)
(* The resumable chunked-upload hook of src/hooks/useChunkedUpload.ts.     *)
(*                                                                         *)
(* One hook instance: its React state (`state`), the AbortController ref   *)
(* (`abortRef`), the localStorage records (`store`) and every invocation   *)
(* of start() (`runs`).  A run is an async function: it executes           *)
(* atomically between two awaits, so each action below is the code from    *)
(* one await to the next.  The awaits are the init fetch ("init"),         *)
(* blob.arrayBuffer() ("buf"), the chunk fetch ("fetch"), the backoff      *)
(* sleep ("sleep") and the finalize fetch ("finalize").  A fetch whose     *)
(* signal is aborted rejects with an AbortError; sleep() ignores the       *)
(* signal and the abort is seen at the next loop top: the step that leaves *)
(* "sleep" is the timer firing, followed at once by the continuation.      *)
(* `lastCall` remembers which of start(), cancel(), reset() the caller     *)
(* invoked last.                                                           *)
(*                                                                         *)
(* Spec is the hook under a caller that starts only from idle, error,      *)
(* canceled or done, over a storage that works; SpecLive adds that every   *)
(* pending await ends, SpecUnguarded drops the caller's guard, SpecRemount *)
(* begins with what an earlier mount left in localStorage, SpecStorage     *)
(* lets the storage calls of start() fail, and SpecWizard puts the         *)
(* UploadWizard of src/unnamed/part_000 (`wizard`) in the caller's place.  *)
(* SpecPartition is the chunk slicing taken alone (`slicer`), SpecMark is  *)
(* updateUploadedChunks taken alone (`marker`).                            *)
(*                                                                         *)
(* A File is modelled by its size, a session id by a positive number (0    *)
(* is null), a missing record by Absent, an HTTP answer by ok / not ok (a  *)
(* rejected fetch takes the same catch path as a non-2xx answer).          *)
(* chunkStatesRef is written but never read by the hook and is left out.   *)
(***************************************************************************)
EXTENDS Integers, Sequences, FiniteSets, TLC

\* ---- program constants --------------------------------------------------
DEFAULT_CHUNK_BYTES == 1048576
MAX_RETRIES == 5
INITIAL_RETRY_DELAY_MS == 1000
MAX_RETRY_DELAY_MS == 30000

\* ---- bounds of the model ------------------------------------------------
\* the largest file has MaxHalfChunks half chunks (5: the 2.5 MiB file of
\* three chunks, the last one short)
MaxHalfChunks == 5
\* number of start() calls in one behaviour
MaxRuns == 2
\* number of session ids the server hands out
MaxSessions == 2
\* the slicing taken alone: files of 0..MaxFileBytes bytes cut into chunks of
\* 1..MaxChunkBytes bytes, next to the hook's own chunk size
MaxFileBytes == 12
MaxChunkBytes == 4
\* updateUploadedChunks taken alone: the indices 0..MaxIndex, marked in any order
MaxIndex == 3

HalfChunk == DEFAULT_CHUNK_BYTES \div 2
\* the empty file, the file of exactly one chunk and the largest file
FileSizes == {0, DEFAULT_CHUNK_BYTES, MaxHalfChunks * HalfChunk}
SessionIds == 1..MaxSessions
Absent == [sessionId |-> 0, fileSize |-> 0, uploadedChunks |-> <<>>]

VARIABLES state, abortRef, store, runs, nextSid, canceledRun, lastCall, slicer,
          wizard, marker

vars ==
  <<state, abortRef, store, runs, nextSid, canceledRun, lastCall, slicer, wizard,
    marker>>

\* ---- helpers --------------------------------------------------------------
Min(a, b) == IF a < b THEN a ELSE b

Range(s) == {s[i] : i \in 1..Len(s)}

\* a chunk count that rounds down
TotalChunksOf_Floor(fileSize, chunkSize) == fileSize \div chunkSize

\* Math.ceil(fileSize / chunkSize), for fileSize >= 0 and chunkSize > 0
TotalChunksOf(fileSize, chunkSize) == (fileSize + chunkSize - 1) \div chunkSize

\* chunkIndex * chunkSize
startByte(chunkIndex, chunkSize) == chunkIndex * chunkSize

\* Math.min(startByte + chunkSize, file.size)
endByte(chunkIndex, fileSize, chunkSize) ==
  Min(startByte(chunkIndex, chunkSize) + chunkSize, fileSize)

\* the hook's chunkSize is DEFAULT_CHUNK_BYTES
TotalChunks(size) == TotalChunksOf(size, DEFAULT_CHUNK_BYTES)

\* endByte - startByte of the chunk loop and of the seeding loop
ChunkBytes(idx, size) ==
  endByte(idx, size, DEFAULT_CHUNK_BYTES) - startByte(idx, DEFAULT_CHUNK_BYTES)

\* a seeding loop that counts every seeded chunk as a full chunk
SeededBytes_FullChunks(list, size) == Len(list) * DEFAULT_CHUNK_BYTES

\* for (const idx of uploadedChunkIndices) totalUploadedBytes += endByte - startByte
RECURSIVE SeededBytes(_, _)
SeededBytes(list, size) ==
  IF list = <<>> THEN 0
  ELSE ChunkBytes(Head(list), size) + SeededBytes(Tail(list), size)

\* calculateBackoffDelay: INITIAL_RETRY_DELAY_MS * 2^retryCount, capped
RECURSIVE Pow2(_)
Pow2(n) == IF n = 0 THEN 1 ELSE 2 * Pow2(n - 1)

\* a backoff computed from the retry number instead of the retry number - 1
calculateBackoffDelay_FromRetryNumber(retryCount) ==
  Min(INITIAL_RETRY_DELAY_MS * Pow2(retryCount + 1), MAX_RETRY_DELAY_MS)

calculateBackoffDelay(retryCount) ==
  Min(INITIAL_RETRY_DELAY_MS * Pow2(retryCount), MAX_RETRY_DELAY_MS)

\* ---- the durable record store (localStorage) ------------------------------
loadUploadState(st, sessionId) == st[sessionId]

saveUploadState(st, rec) == [st EXCEPT ![rec.sessionId] = rec]

\* a removeItem under a key that is not the record's key
clearUploadState_WrongKey(st, sessionId) == st

clearUploadState(st, sessionId) == [st EXCEPT ![sessionId] = Absent]

\* Array.prototype.sort((a, b) => a - b), as an insertion sort
RECURSIVE InsertSorted(_, _)
InsertSorted(x, s) ==
  IF s = <<>> THEN <<x>>
  ELSE IF x <= Head(s) THEN <<x>> \o s
  ELSE <<Head(s)>> \o InsertSorted(x, Tail(s))

RECURSIVE SortAsc(_)
SortAsc(s) == IF s = <<>> THEN <<>> ELSE InsertSorted(Head(s), SortAsc(Tail(s)))

\* an update that starts a record when it finds none
updateUploadedChunks_CreatesRecord(st, sessionId, chunkIndex) ==
  LET rec == loadUploadState(st, sessionId) IN
  IF rec = Absent
  THEN saveUploadState(st, [sessionId |-> sessionId, fileSize |-> 0,
                            uploadedChunks |-> <<chunkIndex>>])
  ELSE IF chunkIndex \in Range(rec.uploadedChunks) THEN st
  ELSE saveUploadState(st,
         [rec EXCEPT !.uploadedChunks = SortAsc(Append(rec.uploadedChunks, chunkIndex))])

\* an update that pushes the new index and saves without sorting
updateUploadedChunks_NoSort(st, sessionId, chunkIndex) ==
  LET rec == loadUploadState(st, sessionId) IN
  IF rec = Absent THEN st
  ELSE IF chunkIndex \in Range(rec.uploadedChunks) THEN st
  ELSE saveUploadState(st,
         [rec EXCEPT !.uploadedChunks = Append(rec.uploadedChunks, chunkIndex)])

\* an update that stores the new index alone instead of the extended list
updateUploadedChunks_Overwrites(st, sessionId, chunkIndex) ==
  LET rec == loadUploadState(st, sessionId) IN
  IF rec = Absent THEN st
  ELSE IF chunkIndex \in Range(rec.uploadedChunks) THEN st
  ELSE saveUploadState(st, [rec EXCEPT !.uploadedChunks = <<chunkIndex>>])

updateUploadedChunks(st, sessionId, chunkIndex) ==
  LET rec == loadUploadState(st, sessionId) IN
  IF rec = Absent THEN st
  ELSE IF chunkIndex \in Range(rec.uploadedChunks) THEN st
  ELSE saveUploadState(st,
         [rec EXCEPT !.uploadedChunks = SortAsc(Append(rec.uploadedChunks, chunkIndex))])

\* ---- the slicing of a file into chunks --------------------------------------
\* the chunk loop taken alone: the [startByte, endByte) ranges it has cut so
\* far from a file of fileSize bytes, and the index it is at
Slicer(fileSize, chunkSize) ==
  [fileSize |-> fileSize, chunkSize |-> chunkSize, chunkIndex |-> 0,
   ranges |-> <<>>]

\* ---- updateUploadedChunks taken alone ------------------------------------------
\* the calls made so far for one session: the record they began with, the
\* indices they passed and the index of the last call
Marker(sessionId, rec) ==
  [sessionId |-> sessionId, initial |-> rec, marked |-> {}, chunkIndex |-> -1]

\* ---- the hook's React state ------------------------------------------------
\* progress is the fraction <<numerator, denominator>>
Zero == <<0, 1>>
One == <<1, 1>>

InitialState ==
  [status |-> "idle", progress |-> Zero, error |-> "null", sessionId |-> 0,
   uploadedBytes |-> 0, totalBytes |-> 0, failedChunks |-> <<>>, currentChunk |-> -1]

updateProgress(s, uploadedBytes, totalBytes) ==
  [s EXCEPT !.progress = IF totalBytes > 0 THEN <<uploadedBytes, totalBytes>> ELSE Zero,
            !.uploadedBytes = uploadedBytes,
            !.totalBytes = totalBytes]

\* ---- one run of start() ----------------------------------------------------
NewRun(file, resumeSessionId) ==
  [file |-> file, resume |-> resumeSessionId, sessionId |-> 0,
   uploadedChunkIndices |-> <<>>, totalUploadedBytes |-> 0,
   chunkIndex |-> 0, retryCount |-> 0, delay |-> 0, failedChunks |-> <<>>,
   pc |-> "init", aborted |-> FALSE, outcome |-> "running",
   \* history of the run, for the properties
   found |-> Absent, canceledAt |-> "none",
   sent |-> {}, succ |-> {}, attempts |-> 0, finalizes |-> 0, netUsed |-> FALSE,
   reported |-> FALSE, firstReport |-> 0, reportBeforeNet |-> FALSE,
   storageFailed |-> FALSE]

\* a run that returned before a later start(): its locals are gone
Returned ==
  [NewRun(0, 0) EXCEPT !.pc = "done", !.outcome = "returned"]

\* an earlier run whose signal is aborted only has to leave its await: no
\* path from there reads its locals again, and they are dropped
Unwinding(run) ==
  [NewRun(0, 0) EXCEPT !.pc = "unwinding", !.aborted = TRUE]

\* the earlier runs as a new start() finds them
Forget(rs) ==
  [i \in 1..Len(rs) |-> IF rs[i].pc = "done" THEN Returned
                         ELSE IF rs[i].aborted THEN Unwinding(rs[i])
                         ELSE rs[i]]

\* a chunk loop without the uploadedSet.has(chunkIndex) test
NextChunk_NoSkip(from, uploadedSet, totalChunks) ==
  IF from >= totalChunks THEN totalChunks ELSE from

\* the first index >= from that the chunk loop does not skip, or totalChunks
RECURSIVE NextChunk(_, _, _)
NextChunk(from, uploadedSet, totalChunks) ==
  IF from >= totalChunks THEN totalChunks
  ELSE IF from \in uploadedSet THEN NextChunk(from + 1, uploadedSet, totalChunks)
  ELSE from

\* a chunk loop whose skip branch advances the index once more
LoopRun_DoubleStep(run, from) ==
  LET uploadedSet == Range(run.uploadedChunkIndices)
      next == IF from \in uploadedSet
              THEN NextChunk(from + 2, uploadedSet, TotalChunks(run.file))
              ELSE NextChunk(from, uploadedSet, TotalChunks(run.file))
  IN
  IF next < TotalChunks(run.file)
  THEN [run EXCEPT !.chunkIndex = next, !.retryCount = 0, !.delay = 0,
                   !.attempts = 0, !.pc = "buf"]
  ELSE [run EXCEPT !.chunkIndex = next, !.retryCount = 0, !.delay = 0,
                   !.attempts = 0, !.pc = "finalize", !.finalizes = @ + 1,
                   !.netUsed = TRUE]

\* the chunk loop from index `from` up to the next await: either the
\* arrayBuffer() of the next chunk to send, or the finalize fetch
LoopRun(run, from) ==
  LET next == NextChunk(from, Range(run.uploadedChunkIndices), TotalChunks(run.file)) IN
  IF next < TotalChunks(run.file)
  THEN [run EXCEPT !.chunkIndex = next, !.retryCount = 0, !.delay = 0,
                   !.attempts = 0, !.pc = "buf"]
  ELSE [run EXCEPT !.chunkIndex = next, !.retryCount = 0, !.delay = 0,
                   !.attempts = 0, !.pc = "finalize", !.finalizes = @ + 1,
                   !.netUsed = TRUE]

LoopState(s, run, from) ==
  LET next == NextChunk(from, Range(run.uploadedChunkIndices), TotalChunks(run.file)) IN
  IF next < TotalChunks(run.file)
  THEN [s EXCEPT !.currentChunk = next]
  ELSE [s EXCEPT !.status = "finalizing", !.currentChunk = -1]

\* lines 324-343: seed the byte total, report it, enter "uploading"
SeedRun(run) ==
  LET seeded == SeededBytes(run.uploadedChunkIndices, run.file) IN
  [run EXCEPT !.totalUploadedBytes = seeded,
              !.reported = TRUE, !.firstReport = seeded,
              !.reportBeforeNet = ~run.netUsed]

\* an entry into "uploading" that publishes 0 instead of the seeded total
SeedState_ZeroBytes(s, run) ==
  [updateProgress(s, 0, run.file) EXCEPT !.status = "uploading",
                                         !.uploadedBytes = 0]

SeedState(s, run) ==
  LET seeded == SeededBytes(run.uploadedChunkIndices, run.file) IN
  [updateProgress(s, seeded, run.file) EXCEPT !.status = "uploading",
                                               !.uploadedBytes = seeded]

\* a resume that trusts any record it finds, whatever its fileSize
ResumeIndices_AnyRecord(storedState, file) ==
  IF storedState # Absent THEN storedState.uploadedChunks ELSE <<>>

\* lines 297-300: the indices a resume seeds from the record it loaded
ResumeIndices(storedState, file) ==
  IF storedState # Absent /\ storedState.fileSize = file
  THEN storedState.uploadedChunks ELSE <<>>

\* ---- the UploadWizard's own React state ---------------------------------------
\* file is the size of the selected File or NoFile (null); validationResult is
\* "null", "valid" or "invalid"
NoFile == -1

InitialWizard ==
  [file |-> NoFile, validationResult |-> "null", isValidating |-> FALSE]

Init ==
  /\ state = InitialState
  /\ abortRef = 0
  /\ store = [s \in SessionIds |-> Absent]
  /\ runs = <<>>
  /\ nextSid = 1
  /\ canceledRun = 0
  /\ lastCall = "none"
  /\ slicer = Slicer(0, DEFAULT_CHUNK_BYTES)
  /\ wizard = InitialWizard
  /\ marker = Marker(0, Absent)

\* start(file, resumeSessionId): resumeSessionId = 0 is a fresh start
start(file, resumeSessionId) ==
  LET r == Len(runs) + 1
      s1 == [state EXCEPT !.error = "null", !.progress = Zero,
                          !.status = "initializing", !.uploadedBytes = 0,
                          !.totalBytes = file, !.failedChunks = <<>>,
                          !.currentChunk = -1]
      storedState == loadUploadState(store, resumeSessionId)
      run1 == [NewRun(file, resumeSessionId) EXCEPT
                 !.sessionId = resumeSessionId,
                 !.found = storedState,
                 !.uploadedChunkIndices = ResumeIndices(storedState, file)]
      s2 == [s1 EXCEPT !.sessionId = resumeSessionId]
      run2 == SeedRun(run1)
  IN
  /\ Len(runs) < MaxRuns
  /\ abortRef' = r
  /\ canceledRun' = 0
  /\ lastCall' = "start"
  /\ IF resumeSessionId # 0
     THEN /\ runs' = Append(Forget(runs), LoopRun(run2, 0))
          /\ state' = LoopState(SeedState(s2, run1), run2, 0)
     ELSE /\ runs' = Append(Forget(runs), [NewRun(file, 0) EXCEPT !.netUsed = TRUE])
          /\ state' = s1
  /\ UNCHANGED <<store, nextSid, slicer, wizard, marker>>

\* an init answer handled without the saveUploadState call
InitOk_NoRecord(r) ==
  LET run == runs[r]
      sessionId == nextSid
      run1 == [run EXCEPT !.sessionId = sessionId]
      s1 == [state EXCEPT !.sessionId = sessionId]
      run2 == SeedRun(run1)
  IN
  /\ run.pc = "init" /\ ~run.aborted
  /\ nextSid <= MaxSessions
  /\ nextSid' = nextSid + 1
  /\ runs' = [runs EXCEPT ![r] = LoopRun(run2, 0)]
  /\ state' = LoopState(SeedState(s1, run1), run2, 0)
  /\ UNCHANGED <<abortRef, store, canceledRun, lastCall, slicer, wizard, marker>>

\* the init handshake answers 2xx with a fresh sessionId; the "lastSessionId"
\* key written at line 321 is never read and is not part of the store
InitOk(r) ==
  LET run == runs[r]
      sessionId == nextSid
      run1 == [run EXCEPT !.sessionId = sessionId]
      s1 == [state EXCEPT !.sessionId = sessionId]
      run2 == SeedRun(run1)
  IN
  /\ run.pc = "init" /\ ~run.aborted
  /\ nextSid <= MaxSessions
  /\ nextSid' = nextSid + 1
  /\ store' = saveUploadState(store,
       [sessionId |-> sessionId, fileSize |-> run.file, uploadedChunks |-> <<>>])
  /\ runs' = [runs EXCEPT ![r] = LoopRun(run2, 0)]
  /\ state' = LoopState(SeedState(s1, run1), run2, 0)
  /\ UNCHANGED <<abortRef, canceledRun, lastCall, slicer, wizard, marker>>

\* an init failure that is reported but does not leave start()
InitFail_Continues(r) ==
  /\ runs[r].pc = "init" /\ ~runs[r].aborted
  /\ runs' = [runs EXCEPT ![r] = [LoopRun(runs[r], 0) EXCEPT !.outcome = "initError"]]
  /\ state' = [state EXCEPT !.status = "error", !.error = "init failed"]
  /\ UNCHANGED <<abortRef, store, nextSid, canceledRun, lastCall, slicer,
                 wizard, marker>>

\* the init handshake fails: outer catch
InitFail(r) ==
  /\ runs[r].pc = "init" /\ ~runs[r].aborted
  /\ runs' = [runs EXCEPT ![r].pc = "done", ![r].outcome = "initError"]
  /\ state' = [state EXCEPT !.status = "error", !.error = "init failed"]
  /\ UNCHANGED <<abortRef, store, nextSid, canceledRun, lastCall, slicer,
                 wizard, marker>>

\* a chunk request issued without the run's signal and without the loop-top check
BufReady_IgnoresSignal(r) ==
  /\ runs[r].pc = "buf"
  /\ runs' = [runs EXCEPT ![r].pc = "fetch",
                          ![r].sent = @ \cup {runs[r].chunkIndex},
                          ![r].attempts = @ + 1,
                          ![r].netUsed = TRUE]
  /\ UNCHANGED <<state, abortRef, store, nextSid, canceledRun, lastCall, slicer,
                 wizard, marker>>

\* blob.arrayBuffer() resolved: the chunk request is issued
BufReady(r) ==
  /\ runs[r].pc = "buf" /\ ~runs[r].aborted
  /\ runs' = [runs EXCEPT ![r].pc = "fetch",
                          ![r].sent = @ \cup {runs[r].chunkIndex},
                          ![r].attempts = @ + 1,
                          ![r].netUsed = TRUE]
  /\ UNCHANGED <<state, abortRef, store, nextSid, canceledRun, lastCall, slicer,
                 wizard, marker>>

\* a success path that reports the chunk's own bytes, not the running total
ChunkOk_ReportsChunkOnly(r) ==
  LET run == runs[r]
      total == run.totalUploadedBytes + ChunkBytes(run.chunkIndex, run.file)
      run1 == [run EXCEPT !.totalUploadedBytes = total,
                          !.succ = @ \cup {run.chunkIndex}]
      s1 == [updateProgress(state, ChunkBytes(run.chunkIndex, run.file), run.file)
               EXCEPT !.status = "uploading"]
  IN
  /\ run.pc = "fetch" /\ ~run.aborted
  /\ store' = updateUploadedChunks(store, run.sessionId, run.chunkIndex)
  /\ runs' = [runs EXCEPT ![r] = LoopRun(run1, run.chunkIndex + 1)]
  /\ state' = LoopState(s1, run1, run.chunkIndex + 1)
  /\ UNCHANGED <<abortRef, nextSid, canceledRun, lastCall, slicer, wizard, marker>>

\* the chunk request answers 2xx
ChunkOk(r) ==
  LET run == runs[r]
      total == run.totalUploadedBytes + ChunkBytes(run.chunkIndex, run.file)
      run1 == [run EXCEPT !.totalUploadedBytes = total,
                          !.succ = @ \cup {run.chunkIndex}]
      s1 == [updateProgress(state, total, run.file) EXCEPT !.status = "uploading"]
  IN
  /\ run.pc = "fetch" /\ ~run.aborted
  /\ store' = updateUploadedChunks(store, run.sessionId, run.chunkIndex)
  /\ runs' = [runs EXCEPT ![r] = LoopRun(run1, run.chunkIndex + 1)]
  /\ state' = LoopState(s1, run1, run.chunkIndex + 1)
  /\ UNCHANGED <<abortRef, nextSid, canceledRun, lastCall, slicer, wizard, marker>>

\* a retry branch that is open whatever the retry count
ChunkRetry_Forever(r) ==
  LET run == runs[r] IN
  /\ run.pc = "fetch" /\ ~run.aborted
  /\ runs' = [runs EXCEPT ![r].retryCount = Min(@ + 1, MAX_RETRIES),
                          ![r].attempts = Min(@, MAX_RETRIES),
                          ![r].delay = calculateBackoffDelay(Min(run.retryCount, MAX_RETRIES - 1)),
                          ![r].pc = "sleep"]
  /\ state' = [state EXCEPT !.status = "retrying", !.currentChunk = run.chunkIndex]
  /\ UNCHANGED <<abortRef, store, nextSid, canceledRun, lastCall, slicer,
                 wizard, marker>>

\* a retry branch that compares with <= and so grants one retry too many
ChunkRetry_OneMore(r) ==
  LET run == runs[r] IN
  /\ run.pc = "fetch" /\ ~run.aborted
  /\ run.retryCount <= MAX_RETRIES
  /\ runs' = [runs EXCEPT ![r].retryCount = @ + 1,
                          ![r].delay = calculateBackoffDelay(run.retryCount + 1 - 1),
                          ![r].pc = "sleep"]
  /\ state' = [state EXCEPT !.status = "retrying", !.currentChunk = run.chunkIndex]
  /\ UNCHANGED <<abortRef, store, nextSid, canceledRun, lastCall, slicer,
                 wizard, marker>>

\* the chunk request fails and a retry is left: onRetry, then sleep(delay)
ChunkRetry(r) ==
  LET run == runs[r] IN
  /\ run.pc = "fetch" /\ ~run.aborted
  /\ run.retryCount < MAX_RETRIES
  /\ runs' = [runs EXCEPT ![r].retryCount = @ + 1,
                          ![r].delay = calculateBackoffDelay(run.retryCount + 1 - 1),
                          ![r].pc = "sleep"]
  /\ state' = [state EXCEPT !.status = "retrying", !.currentChunk = run.chunkIndex]
  /\ UNCHANGED <<abortRef, store, nextSid, canceledRun, lastCall, slicer,
                 wizard, marker>>

\* an exhausted chunk that is listed as failed and stepped over
ChunkExhausted_StepsOver(r) ==
  LET run == runs[r]
      run1 == [run EXCEPT !.failedChunks = Append(@, run.chunkIndex)]
  IN
  /\ run.pc = "fetch" /\ ~run.aborted
  /\ run.retryCount >= MAX_RETRIES
  /\ runs' = [runs EXCEPT ![r] = LoopRun(run1, run.chunkIndex + 1)]
  /\ state' = LoopState([state EXCEPT !.status = "uploading"], run1,
                        run.chunkIndex + 1)
  /\ UNCHANGED <<abortRef, store, nextSid, canceledRun, lastCall, slicer,
                 wizard, marker>>

\* an error path that also clears the byte progress
ChunkExhausted_ResetsBytes(r) ==
  LET run == runs[r] IN
  /\ run.pc = "fetch" /\ ~run.aborted
  /\ run.retryCount >= MAX_RETRIES
  /\ runs' = [runs EXCEPT ![r].failedChunks = Append(@, run.chunkIndex),
                          ![r].pc = "done", ![r].outcome = "chunkError"]
  /\ state' = [state EXCEPT !.status = "error", !.error = "chunk failed",
                            !.progress = Zero, !.uploadedBytes = 0]
  /\ UNCHANGED <<abortRef, store, nextSid, canceledRun, lastCall, slicer,
                 wizard, marker>>

\* the chunk request fails on the last attempt: inner catch, outer catch
ChunkExhausted(r) ==
  LET run == runs[r] IN
  /\ run.pc = "fetch" /\ ~run.aborted
  /\ run.retryCount >= MAX_RETRIES
  /\ runs' = [runs EXCEPT ![r].failedChunks = Append(@, run.chunkIndex),
                          ![r].pc = "done", ![r].outcome = "chunkError"]
  /\ state' = [state EXCEPT !.status = "error", !.error = "chunk failed"]
  /\ UNCHANGED <<abortRef, store, nextSid, canceledRun, lastCall, slicer,
                 wizard, marker>>

\* a retry attempt that puts the status back to uploading before it sends
SleepDone_ShowsUploading(r) ==
  /\ runs[r].pc = "sleep" /\ ~runs[r].aborted
  /\ runs' = [runs EXCEPT ![r].pc = "buf"]
  /\ state' = [state EXCEPT !.status = "uploading"]
  /\ UNCHANGED <<abortRef, store, nextSid, canceledRun, lastCall, slicer,
                 wizard, marker>>

\* the backoff sleep elapsed and the signal is not aborted: next attempt
SleepDone(r) ==
  /\ runs[r].pc = "sleep" /\ ~runs[r].aborted
  /\ runs' = [runs EXCEPT ![r].pc = "buf"]
  /\ UNCHANGED <<state, abortRef, store, nextSid, canceledRun, lastCall, slicer,
                 wizard, marker>>

\* a finalize success path without the clearUploadState call
FinalizeOk_KeepsRecord(r) ==
  LET run == runs[r] IN
  /\ run.pc = "finalize" /\ ~run.aborted
  /\ runs' = [runs EXCEPT ![r].pc = "done", ![r].outcome = "done"]
  /\ state' = [state EXCEPT !.status = "done", !.progress = One,
                            !.uploadedBytes = run.file]
  /\ UNCHANGED <<abortRef, store, nextSid, canceledRun, lastCall, slicer,
                 wizard, marker>>

\* the finalize handshake answers 2xx
FinalizeOk(r) ==
  LET run == runs[r] IN
  /\ run.pc = "finalize" /\ ~run.aborted
  /\ store' = clearUploadState(store, run.sessionId)
  /\ runs' = [runs EXCEPT ![r].pc = "done", ![r].outcome = "done"]
  /\ state' = [state EXCEPT !.status = "done", !.progress = One,
                            !.uploadedBytes = run.file]
  /\ UNCHANGED <<abortRef, nextSid, canceledRun, lastCall, slicer, wizard, marker>>

\* a finalize that drops the record before looking at the response
FinalizeFail_ClearsRecord(r) ==
  /\ runs[r].pc = "finalize" /\ ~runs[r].aborted
  /\ runs' = [runs EXCEPT ![r].pc = "done", ![r].outcome = "finalizeError"]
  /\ state' = [state EXCEPT !.status = "error", !.error = "finalize failed"]
  /\ store' = clearUploadState(store, runs[r].sessionId)
  /\ UNCHANGED <<abortRef, nextSid, canceledRun, lastCall, slicer, wizard, marker>>

\* the finalize handshake fails: outer catch
FinalizeFail(r) ==
  /\ runs[r].pc = "finalize" /\ ~runs[r].aborted
  /\ runs' = [runs EXCEPT ![r].pc = "done", ![r].outcome = "finalizeError"]
  /\ state' = [state EXCEPT !.status = "error", !.error = "finalize failed"]
  /\ UNCHANGED <<abortRef, store, nextSid, canceledRun, lastCall, slicer,
                 wizard, marker>>

\* an outer catch without the "Upload canceled" / AbortError filter
AbortedExit_ReportsError(r) ==
  LET run == runs[r] IN
  /\ run.pc # "done" /\ run.aborted
  /\ runs' = [runs EXCEPT ![r] =
       IF r < Len(runs) THEN Returned
       ELSE [run EXCEPT !.pc = "done", !.outcome = "canceled"]]
  /\ state' = [state EXCEPT !.status = "error", !.error = "Upload canceled"]
  /\ UNCHANGED <<abortRef, store, nextSid, canceledRun, lastCall, slicer,
                 wizard, marker>>

\* the run's signal is aborted: a pending fetch rejects with AbortError, a
\* fetch issued after arrayBuffer() rejects at once, the loop top after a
\* sleep throws "Upload canceled"; the outer catch returns silently
AbortedExit(r) ==
  LET run == runs[r] IN
  /\ run.pc # "done" /\ run.aborted
  /\ runs' = [runs EXCEPT ![r] =
       IF r < Len(runs) THEN Returned
       ELSE [run EXCEPT
               !.failedChunks = IF run.pc \in {"buf", "fetch", "sleep"}
                                THEN Append(@, run.chunkIndex) ELSE @,
               !.pc = "done", !.outcome = "canceled"]]
  /\ UNCHANGED <<state, abortRef, store, nextSid, canceledRun, lastCall, slicer,
                 wizard, marker>>

\* a cancel that sets the status and does not raise the run's signal
cancel_NoAbort ==
  /\ abortRef' = 0
  /\ state' = [state EXCEPT !.status = "canceled"]
  /\ canceledRun' = canceledRun
  /\ lastCall' = "cancel"
  /\ UNCHANGED <<runs, store, nextSid, slicer, wizard, marker>>

cancel ==
  /\ runs' = IF abortRef # 0 /\ runs[abortRef].pc # "done"
             THEN [runs EXCEPT ![abortRef].aborted = TRUE,
                               ![abortRef].canceledAt = runs[abortRef].pc]
             ELSE runs
  /\ abortRef' = 0
  /\ state' = [state EXCEPT !.status = "canceled"]
  /\ canceledRun' = IF abortRef # 0 /\ runs[abortRef].pc # "done"
                    THEN abortRef ELSE canceledRun
  /\ lastCall' = "cancel"
  /\ UNCHANGED <<store, nextSid, slicer, wizard, marker>>

\* a reset that clears the fields and the record but leaves the run's signal
reset_NoAbort ==
  /\ abortRef' = 0
  /\ store' = IF state.sessionId # 0 THEN clearUploadState(store, state.sessionId)
              ELSE store
  /\ state' = InitialState
  /\ canceledRun' = 0
  /\ lastCall' = "reset"
  /\ UNCHANGED <<runs, nextSid, slicer, marker>>

\* reset(); the wizard's handlers call it and set the wizard's own fields in
\* the same step, so `wizard` is not constrained here
reset ==
  /\ runs' = IF abortRef # 0 /\ runs[abortRef].pc # "done"
             THEN [runs EXCEPT ![abortRef].aborted = TRUE]
             ELSE runs
  /\ abortRef' = 0
  /\ store' = IF state.sessionId # 0 THEN clearUploadState(store, state.sessionId)
              ELSE store
  /\ state' = InitialState
  /\ canceledRun' = 0
  /\ lastCall' = "reset"
  /\ UNCHANGED <<nextSid, slicer, marker>>

\* ---- the caller ------------------------------------------------------------
\* start() is called from idle, error, canceled or done only (the transition
\* table; the wizard's canStart / canRetry), with no resumeSessionId or with a
\* session id the server issued before
Startable == state.status \in {"idle", "error", "canceled", "done"}

StartFresh == \E f \in FileSizes : Startable /\ start(f, 0)

StartResume ==
  \E f \in FileSizes : \E sid \in 1..(nextSid - 1) : Startable /\ start(f, sid)

\* the continuation of run r after the await it is suspended at
StepOf(r) ==
  \/ InitOk(r)
  \/ InitFail(r)
  \/ BufReady(r)
  \/ ChunkOk(r)
  \/ ChunkRetry(r)
  \/ ChunkExhausted(r)
  \/ SleepDone(r)
  \/ FinalizeOk(r)
  \/ FinalizeFail(r)
  \/ AbortedExit(r)

RunStep == \E r \in 1..Len(runs) : StepOf(r)

Next ==
  \/ StartFresh
  \/ StartResume
  \/ RunStep
  \/ cancel
  \/ reset /\ UNCHANGED wizard

Spec == Init /\ [][Next]_vars

\* ---- awaits that end -----------------------------------------------------------
\* an await that is pending ends: a request is answered or rejected,
\* arrayBuffer() resolves, the timer of a sleep fires; as long as some run is
\* suspended, some run is resumed.  The caller is not obliged to call anything.
Fairness == WF_vars(RunStep)

SpecLive == Init /\ [][Next]_vars /\ Fairness

\* ---- a caller that does not wait ---------------------------------------------
\* start() is called in any status, also while an earlier run is in flight:
\* the hook itself has no guard
StartAnytime ==
  \E f \in FileSizes : \E sid \in 0..(nextSid - 1) : start(f, sid)

NextUnguarded ==
  \/ StartAnytime
  \/ RunStep
  \/ cancel
  \/ reset /\ UNCHANGED wizard

SpecUnguarded == Init /\ [][NextUnguarded]_vars

\* ---- a hook mounted again ------------------------------------------------------
\* the records an earlier mount of the hook can have left for session 1: none
\* (never saved, or removed by reset() or a 2xx finalize), or the record of a
\* file with the first k chunks delivered
LeftRecords ==
  {Absent} \cup
  UNION {{[sessionId |-> 1, fileSize |-> f, uploadedChunks |-> [i \in 1..k |-> i - 1]]
            : k \in 0..TotalChunks(f)} : f \in FileSizes}

\* useState / useRef start afresh, localStorage and the server's sessions stay
InitRemount ==
  /\ state = InitialState
  /\ abortRef = 0
  /\ \E rec \in LeftRecords :
       store = [s \in SessionIds |-> IF s = 1 THEN rec ELSE Absent]
  /\ runs = <<>>
  /\ nextSid = 2
  /\ canceledRun = 0
  /\ lastCall = "none"
  /\ slicer = Slicer(0, DEFAULT_CHUNK_BYTES)
  /\ wizard = InitialWizard
  /\ marker = Marker(0, Absent)

SpecRemount == InitRemount /\ [][Next]_vars

\* ---- a storage that fails ----------------------------------------------------
\* localStorage may throw on any call (quota exceeded, storage disabled).  The
\* four record functions catch it: a failed load reads as no record, a failed
\* save or remove leaves the store as it was.  The "lastSessionId" write of
\* line 321 is made outside them.  The failures modelled are those of the
\* calls start() makes; reset()'s own remove is left reliable.

\* start(file, resumeSessionId) whose loadUploadState fails: storedState is null
startLoadFails(file, resumeSessionId) ==
  LET r == Len(runs) + 1
      s1 == [state EXCEPT !.error = "null", !.progress = Zero,
                          !.status = "initializing", !.uploadedBytes = 0,
                          !.totalBytes = file, !.failedChunks = <<>>,
                          !.currentChunk = -1]
      run1 == [NewRun(file, resumeSessionId) EXCEPT
                 !.sessionId = resumeSessionId,
                 !.found = Absent,
                 !.uploadedChunkIndices = ResumeIndices(Absent, file),
                 !.storageFailed = TRUE]
      s2 == [s1 EXCEPT !.sessionId = resumeSessionId]
      run2 == SeedRun(run1)
  IN
  /\ Len(runs) < MaxRuns
  /\ resumeSessionId # 0
  /\ abortRef' = r
  /\ canceledRun' = 0
  /\ lastCall' = "start"
  /\ runs' = Append(Forget(runs), LoopRun(run2, 0))
  /\ state' = LoopState(SeedState(s2, run1), run2, 0)
  /\ UNCHANGED <<store, nextSid, slicer, wizard, marker>>

StartResumeLoadFails ==
  \E f \in FileSizes : \E sid \in 1..(nextSid - 1) :
    Startable /\ startLoadFails(f, sid)

\* the init handshake answers 2xx and a write fails: saveUploadState swallows
\* its failure; a throw of the "lastSessionId" write, made after the setState
\* of sessionId, lands in the outer catch
InitOkStorageFails(r) ==
  \E saveOk, lastSessionIdOk \in BOOLEAN :
    LET run == runs[r]
        sessionId == nextSid
        run1 == [run EXCEPT !.sessionId = sessionId, !.storageFailed = TRUE]
        s1 == [state EXCEPT !.sessionId = sessionId]
        run2 == SeedRun(run1)
    IN
    /\ run.pc = "init" /\ ~run.aborted
    /\ ~(saveOk /\ lastSessionIdOk)
    /\ nextSid <= MaxSessions
    /\ nextSid' = nextSid + 1
    /\ store' = IF saveOk
                THEN saveUploadState(store,
                       [sessionId |-> sessionId, fileSize |-> run.file,
                        uploadedChunks |-> <<>>])
                ELSE store
    /\ IF lastSessionIdOk
       THEN /\ runs' = [runs EXCEPT ![r] = LoopRun(run2, 0)]
            /\ state' = LoopState(SeedState(s1, run1), run2, 0)
       ELSE /\ runs' = [runs EXCEPT ![r] =
                 [run1 EXCEPT !.pc = "done", !.outcome = "storageError"]]
            /\ state' = [s1 EXCEPT !.status = "error", !.error = "storage failed"]
    /\ UNCHANGED <<abortRef, canceledRun, lastCall, slicer, wizard, marker>>

\* the chunk request answers 2xx and updateUploadedChunks fails in its load or
\* in its save: nothing is recorded
ChunkOkStorageFails(r) ==
  LET run == runs[r]
      total == run.totalUploadedBytes + ChunkBytes(run.chunkIndex, run.file)
      run1 == [run EXCEPT !.totalUploadedBytes = total,
                          !.succ = @ \cup {run.chunkIndex},
                          !.storageFailed = TRUE]
      s1 == [updateProgress(state, total, run.file) EXCEPT !.status = "uploading"]
  IN
  /\ run.pc = "fetch" /\ ~run.aborted
  /\ runs' = [runs EXCEPT ![r] = LoopRun(run1, run.chunkIndex + 1)]
  /\ state' = LoopState(s1, run1, run.chunkIndex + 1)
  /\ UNCHANGED <<abortRef, store, nextSid, canceledRun, lastCall, slicer,
                 wizard, marker>>

\* the finalize handshake answers 2xx and clearUploadState fails
FinalizeOkStorageFails(r) ==
  LET run == runs[r] IN
  /\ run.pc = "finalize" /\ ~run.aborted
  /\ runs' = [runs EXCEPT ![r].pc = "done", ![r].outcome = "done",
                          ![r].storageFailed = TRUE]
  /\ state' = [state EXCEPT !.status = "done", !.progress = One,
                            !.uploadedBytes = run.file]
  /\ UNCHANGED <<abortRef, store, nextSid, canceledRun, lastCall, slicer,
                 wizard, marker>>

StorageFailStep ==
  \E r \in 1..Len(runs) :
    \/ InitOkStorageFails(r)
    \/ ChunkOkStorageFails(r)
    \/ FinalizeOkStorageFails(r)

NextStorage ==
  \/ StartFresh
  \/ StartResume
  \/ StartResumeLoadFails
  \/ RunStep
  \/ StorageFailStep
  \/ cancel
  \/ reset /\ UNCHANGED wizard

SpecStorage == Init /\ [][NextStorage]_vars

\* ---- the slicing taken alone -------------------------------------------------
\* file sizes around the multiples of half the hook's chunk size
BoundaryFileSizes ==
  {h * HalfChunk + d : h \in 0..MaxHalfChunks, d \in {-1, 0, 1}} \ {-1}

SlicerInputs ==
  {Slicer(f, c) : f \in 0..MaxFileBytes, c \in 1..MaxChunkBytes}
    \cup {Slicer(f, DEFAULT_CHUNK_BYTES) : f \in BoundaryFileSizes}

InitPartition ==
  /\ state = InitialState
  /\ abortRef = 0
  /\ store = [s \in SessionIds |-> Absent]
  /\ runs = <<>>
  /\ nextSid = 1
  /\ canceledRun = 0
  /\ lastCall = "none"
  /\ slicer \in SlicerInputs
  /\ wizard = InitialWizard
  /\ marker = Marker(0, Absent)

\* one turn of the chunk loop: the range file.slice(startByte, endByte) cuts
Slice ==
  /\ slicer.chunkIndex < TotalChunksOf(slicer.fileSize, slicer.chunkSize)
  /\ slicer' = [slicer EXCEPT
       !.ranges = Append(@, <<startByte(slicer.chunkIndex, slicer.chunkSize),
                              endByte(slicer.chunkIndex, slicer.fileSize,
                                      slicer.chunkSize)>>),
       !.chunkIndex = @ + 1]
  /\ UNCHANGED <<state, abortRef, store, runs, nextSid, canceledRun, lastCall,
               wizard, marker>>

NextPartition == Slice

SpecPartition == InitPartition /\ [][NextPartition]_vars

\* ---- the marking of chunks taken alone ----------------------------------------
\* the list a set of indices is stored as: the code writes sorted lists only
RECURSIVE ListOf(_)
ListOf(S) ==
  IF S = {} THEN <<>>
  ELSE LET m == CHOOSE x \in S : \A y \in S : x <= y
       IN  <<m>> \o ListOf(S \ {m})

\* the records session 1 may hold when the calls begin, or none
MarkerRecords ==
  {[sessionId |-> 1, fileSize |-> (MaxIndex + 1) * DEFAULT_CHUNK_BYTES,
    uploadedChunks |-> ListOf(S)] : S \in SUBSET (0..MaxIndex)} \cup {Absent}

InitMark ==
  /\ state = InitialState
  /\ abortRef = 0
  /\ runs = <<>>
  /\ nextSid = 1
  /\ canceledRun = 0
  /\ lastCall = "none"
  /\ slicer = Slicer(0, DEFAULT_CHUNK_BYTES)
  /\ wizard = InitialWizard
  /\ \E rec \in MarkerRecords :
       /\ store = [s \in SessionIds |-> IF s = 1 THEN rec ELSE Absent]
       /\ marker = Marker(1, rec)

\* one call updateUploadedChunks(sessionId, chunkIndex)
CallUpdateUploadedChunks ==
  \E chunkIndex \in 0..MaxIndex :
    /\ store' = updateUploadedChunks(store, marker.sessionId, chunkIndex)
    /\ marker' = [marker EXCEPT !.marked = @ \cup {chunkIndex},
                                !.chunkIndex = chunkIndex]
    /\ UNCHANGED <<state, abortRef, runs, nextSid, canceledRun, lastCall, slicer,
                   wizard>>

NextMark == CallUpdateUploadedChunks

SpecMark == InitMark /\ [][NextMark]_vars

\* ---- the hook driven through the UploadWizard ----------------------------------
\* the wizard's render: what it shows and which of its controls are enabled

\* a phase mapping that shows "ready" as soon as the chunks are delivered
getPhaseFromStatus_ReadyOnFinalizing(status, isValidating) ==
  IF isValidating THEN "validate"
  ELSE IF status = "idle" \/ status = "canceled" THEN "select"
  ELSE IF status = "initializing" THEN "validate"
  ELSE IF status = "uploading" \/ status = "retrying" THEN "upload"
  ELSE IF status = "finalizing" \/ status = "done" THEN "ready"
  ELSE "select"

\* the phase shown for a status; validation takes precedence
getPhaseFromStatus(status, isValidating) ==
  IF isValidating THEN "validate"
  ELSE IF status = "idle" \/ status = "canceled" THEN "select"
  ELSE IF status = "initializing" THEN "validate"
  ELSE IF status = "uploading" \/ status = "retrying" THEN "upload"
  ELSE IF status = "finalizing" THEN "finalize"
  ELSE IF status = "done" THEN "ready"
  ELSE "select"

phase == getPhaseFromStatus(state.status, wizard.isValidating)

canStart ==
  /\ wizard.file # NoFile
  /\ wizard.validationResult = "valid"
  /\ state.status \in {"idle", "error", "canceled", "done"}

isBusy ==
  state.status = "uploading" \/ state.status = "finalizing" \/ wizard.isValidating

canRetry ==
  state.status = "error" /\ wizard.file # NoFile /\ state.sessionId # 0

\* the View Preview button is rendered
ViewPreview == state.status = "done" /\ state.sessionId # 0

\* validateCsvFile: a file below MIN_FILE_SIZE_BYTES = 1 is invalid, any other
\* is valid or not by its name, type and content
ValidationResults(file) == IF file < 1 THEN {"invalid"} ELSE {"valid", "invalid"}

\* the file input (disabled while isBusy) changes: reset(), then the
\* validation of the selected file, if any, is awaited
handleFileChange ==
  \E selectedFile \in FileSizes \cup {NoFile} :
    /\ ~isBusy
    /\ reset
    /\ wizard' = [file |-> selectedFile, validationResult |-> "null",
                  isValidating |-> selectedFile # NoFile]

\* validateCsvFile answered: setValidationResult, then setIsValidating(false)
ValidationDone ==
  /\ wizard.isValidating
  /\ \E result \in ValidationResults(wizard.file) :
       wizard' = [wizard EXCEPT !.validationResult = result,
                                !.isValidating = FALSE]
  /\ UNCHANGED <<state, abortRef, store, runs, nextSid, canceledRun, lastCall,
                 slicer, marker>>

\* the Start Upload button, disabled unless canStart
handleStart == canStart /\ start(wizard.file, 0)

\* the Retry Upload button, rendered only when canRetry
handleRetry == canRetry /\ start(wizard.file, state.sessionId)

\* the Reset button, always enabled
handleReset ==
  /\ reset
  /\ wizard' = [wizard EXCEPT !.file = NoFile, !.validationResult = "null"]

\* the Cancel button, disabled unless isBusy
handleCancel == isBusy /\ cancel

NextWizard ==
  \/ handleFileChange
  \/ ValidationDone
  \/ handleStart
  \/ handleRetry
  \/ handleReset
  \/ handleCancel
  \/ RunStep

SpecWizard == Init /\ [][NextWizard]_vars

\* ---- vocabulary of the properties ------------------------------------------
\* byte length of chunk i of a file: min((i+1)*chunkSize, fileSize) - i*chunkSize
ByteLength(i, fileSize) ==
  Min((i + 1) * DEFAULT_CHUNK_BYTES, fileSize) - i * DEFAULT_CHUNK_BYTES

RECURSIVE SumByteLength(_, _)
SumByteLength(S, fileSize) ==
  IF S = {} THEN 0
  ELSE LET i == CHOOSE x \in S : TRUE
       IN  ByteLength(i, fileSize) + SumByteLength(S \ {i}, fileSize)

AllChunks(fileSize) == 0..(TotalChunks(fileSize) - 1)

IsOne(p) == p[1] = p[2]

Latest == runs[Len(runs)]

\* the run was a resume that found a record of the same file size
ResumeMatched(run) ==
  run.resume # 0 /\ run.found # Absent /\ run.found.fileSize = run.file

\* the run was a resume that found no record, or one of another file size
ResumeMismatched(run) ==
  run.resume # 0 /\ (run.found = Absent \/ run.found.fileSize # run.file)

\* every chunk was dealt with: the run issued its finalize request
ReachedFinalize(run) ==
  run.pc = "finalize" \/ run.outcome \in {"done", "finalizeError"}

\* ---- C1 ---------------------------------------------------------------------
\* C1: when chunk i fails on its 6th attempt, the run ends with status error
\* and the caller-visible failedChunks is exactly <<i>>.
C1_ExhaustedChunkIsListed ==
  [][\A r \in 1..Len(runs) :
       (runs[r].outcome = "running" /\ runs'[r].outcome = "chunkError")
       => /\ state'.status = "error"
          /\ state'.failedChunks = <<runs[r].chunkIndex>>]_vars

\* ---- C2 ---------------------------------------------------------------------
\* C2: fail-fast.  Once chunk i has exhausted its retries, no chunk j > i is
\* ever sent by that run, and uploadedBytes at the end of the run is the summed
\* byte length of the seeded chunks and of the chunks sent successfully.
C2_FailFast ==
  [][\A r \in 1..Len(runs') :
       runs'[r].outcome = "chunkError"
       => /\ \A j \in runs'[r].sent : j <= runs'[r].chunkIndex
          /\ runs'[r].chunkIndex \notin runs'[r].succ
          /\ (r <= Len(runs) /\ runs[r].outcome = "running")
             => state'.uploadedBytes =
                  SumByteLength(Range(runs'[r].uploadedChunkIndices) \cup runs'[r].succ,
                                runs'[r].file)]_vars

\* chunk 1 of 3 failed after chunk 0 was delivered; chunk 2 was never sent
C2_Witness ==
  /\ Len(runs) > 0
  /\ Latest.outcome = "chunkError"
  /\ TotalChunks(Latest.file) = 3
  /\ Latest.chunkIndex = 1
  /\ Latest.succ = {0}
  /\ state.status = "error"
  /\ state.uploadedBytes = DEFAULT_CHUNK_BYTES

\* ---- C3 ---------------------------------------------------------------------
\* C3: progress is exactly 1.0 only if the finalize handshake of the run has
\* already succeeded.
C3_ProgressOneOnlyAfterFinalize ==
  IsOne(state.progress) => (Len(runs) > 0 /\ Latest.outcome = "done")

\* ---- C4 ---------------------------------------------------------------------
\* C4: in a run that is neither cancelled nor failed, every step of the run
\* after its first report leaves uploadedBytes equal or larger.
C4_UploadedBytesMonotone ==
  [][\A r \in 1..Len(runs) :
       (/\ runs[r].reported
        /\ runs'[r] # runs[r]
        /\ ~runs'[r].aborted
        /\ runs'[r].outcome \in {"running", "done"})
       => state'.uploadedBytes >= state.uploadedBytes]_vars

\* a resumed run with seeded and sent chunks reached done
C4_Witness ==
  /\ Len(runs) > 0
  /\ Latest.outcome = "done"
  /\ Latest.uploadedChunkIndices # <<>>
  /\ Latest.succ # {}
  /\ state.uploadedBytes = Latest.file

\* ---- C5 ---------------------------------------------------------------------
\* C5: a resume that finds a record of the same fileSize with uploaded set S
\* never sends an index of S, and once every chunk is dealt with it has sent
\* exactly {0..totalChunks-1} \ S.
C5_ResumeSendsComplement ==
  \A r \in 1..Len(runs) :
    ResumeMatched(runs[r])
    => LET S == Range(runs[r].found.uploadedChunks) IN
       /\ runs[r].sent \cap S = {}
       /\ runs[r].sent \subseteq AllChunks(runs[r].file)
       /\ ReachedFinalize(runs[r]) => runs[r].sent = AllChunks(runs[r].file) \ S

\* a resume with a non-empty S that is not every chunk completed
C5_Witness ==
  /\ Len(runs) > 0
  /\ ResumeMatched(Latest)
  /\ Latest.found.uploadedChunks # <<>>
  /\ Latest.sent # {}
  /\ Latest.outcome = "done"

\* ---- C6 ---------------------------------------------------------------------
\* C6: on a resume with matching fileSize and persisted set S, start() reports
\* uploadedBytes = the summed byte length of S, and it does so before the run
\* has issued any network request.
C6_ResumeSeedReportedFirst ==
  [][Len(runs') > Len(runs)
     => LET run == runs'[Len(runs')] IN
        ResumeMatched(run)
        => /\ run.reported
           /\ run.reportBeforeNet
           /\ run.sent = {}
           /\ run.firstReport =
                SumByteLength(Range(run.found.uploadedChunks), run.file)
           /\ state'.uploadedBytes = run.firstReport]_vars

\* a resume of a partly uploaded file, before its first chunk request
C6_Witness ==
  /\ Len(runs) > 0
  /\ ResumeMatched(Latest)
  /\ Latest.found.uploadedChunks # <<>>
  /\ Latest.pc = "buf"
  /\ Latest.sent = {}
  /\ state.uploadedBytes > 0

\* ---- C7 ---------------------------------------------------------------------
\* C7: a resume that finds no record, or a record of another fileSize, skips
\* nothing: it reports 0 first, sends the indices 0, 1, 2, ... in order and,
\* once every chunk is dealt with, has sent them all.
C7_MismatchResendsAll ==
  \A r \in 1..Len(runs) :
    ResumeMismatched(runs[r])
    => /\ runs[r].uploadedChunkIndices = <<>>
       /\ runs[r].reported /\ runs[r].firstReport = 0
       /\ runs[r].sent = 0..(Cardinality(runs[r].sent) - 1)
       /\ ReachedFinalize(runs[r]) => runs[r].sent = AllChunks(runs[r].file)

\* a resume against a non-empty record of another file sent every chunk
C7_Witness ==
  /\ Len(runs) > 0
  /\ Latest.resume # 0
  /\ Latest.found # Absent
  /\ Latest.found.fileSize # Latest.file
  /\ Latest.found.uploadedChunks # <<>>
  /\ Latest.outcome = "done"
  /\ Latest.sent = AllChunks(Latest.file)
  /\ Latest.sent # {}

\* ---- C8 ---------------------------------------------------------------------
\* C8: after a resume found a record of another fileSize, the store no longer
\* holds that stale record for the sessionId.
C8_StaleRecordDiscarded ==
  (Len(runs) > 0 /\ Latest.resume # 0 /\ Latest.found # Absent
     /\ Latest.found.fileSize # Latest.file)
  => \/ store[Latest.resume] = Absent
     \/ store[Latest.resume].fileSize = Latest.file

\* ---- C9 ---------------------------------------------------------------------
\* C9: after cancel() interrupted a run between chunk successes, the durable
\* record's uploaded set is exactly D, the seeded chunks plus the chunks whose
\* send had succeeded (a missing record holds no index).
C9_CanceledRecordIsExactlyDone ==
  (canceledRun # 0 /\ runs[canceledRun].canceledAt \in {"buf", "fetch", "sleep"})
  => LET run == runs[canceledRun]
         rec == store[run.sessionId]
     IN  Range(rec.uploadedChunks) = Range(run.uploadedChunkIndices) \cup run.succ

\* ---- C10 --------------------------------------------------------------------
\* C10: a run ended by cancel() leaves status canceled, error null and
\* failedChunks empty until the next start() or reset(), and no later step of
\* an aborted run changes the session state.
C10_CancelIsNotFailure ==
  [][/\ canceledRun' # 0
        => /\ state'.status = "canceled"
           /\ state'.error = "null"
           /\ state'.failedChunks = <<>>
     /\ \A r \in 1..Len(runs) :
          (runs[r].aborted /\ runs'[r] # runs[r] /\ Len(runs') = Len(runs))
          => state' = state]_vars

\* a run cancelled during a backoff sleep has left its await
C10_Witness ==
  /\ canceledRun # 0
  /\ runs[canceledRun].canceledAt = "sleep"
  /\ runs[canceledRun].outcome = "canceled"
  /\ state.status = "canceled"

\* ---- C11 -------------------------------------------------------------------
\* C11: cancel() and a run that ends in error (retries exhausted, finalize
\* rejected) leave every persisted record as it was; a record disappears
\* only in the step of a successful finalize of its session or in a reset()
\* of its session.
C11_RecordKeptOnCancelAndError ==
  [][/\ lastCall' = "cancel" /\ state'.status = "canceled" => store' = store
     /\ \A r \in 1..Len(runs) :
          (runs[r].outcome = "running" /\ Len(runs') = Len(runs)
             /\ runs'[r].outcome \in {"chunkError", "finalizeError", "canceled"})
          => store' = store
     /\ \A s \in SessionIds :
          (store[s] # Absent /\ store'[s] = Absent)
          => \/ lastCall' = "reset" /\ state.sessionId = s /\ state' = InitialState
             \/ \E r \in 1..Len(runs) :
                  /\ runs[r].pc = "finalize" /\ runs[r].sessionId = s
                  /\ Len(runs') = Len(runs) /\ runs'[r].outcome = "done"]_vars

C11_Witness ==
  /\ Len(runs) > 0
  /\ Latest.outcome = "finalizeError"
  /\ Latest.sessionId # 0
  /\ store[Latest.sessionId] # Absent
  /\ Len(store[Latest.sessionId].uploadedChunks) = TotalChunks(Latest.file)
  /\ TotalChunks(Latest.file) > 1
  /\ state.status = "error"

\* ---- C12 -------------------------------------------------------------------
\* C12: reset() called while session s is uploading or retrying removes the
\* record of s in that very step, and an absent record of s becomes present
\* again only in the step where a run started later saves it after its init
\* handshake.
C12_ResetRemovesRecord ==
  [][\A s \in SessionIds :
       /\ (state.status \in {"uploading", "retrying"} /\ state.sessionId = s
             /\ lastCall' = "reset" /\ state' = InitialState)
          => loadUploadState(store', s) = Absent
       /\ (loadUploadState(store, s) = Absent /\ loadUploadState(store', s) # Absent)
          => \E r \in 1..Len(runs) :
               /\ runs[r].pc = "init" /\ ~runs[r].aborted
               /\ Len(runs') = Len(runs) /\ runs'[r].sessionId = s]_vars

C12_Witness ==
  /\ lastCall = "reset"
  /\ state = InitialState
  /\ Len(runs) > 0
  /\ Latest.aborted /\ Latest.canceledAt = "none"
  /\ Latest.pc \in {"buf", "fetch", "sleep"}
  /\ Latest.succ # {}
  /\ Latest.sessionId # 0
  /\ loadUploadState(store, Latest.sessionId) = Absent

\* ---- C13 -------------------------------------------------------------------
\* C13: as long as reset() is the caller's last call, every session field
\* has its initial value, no controller is held and no run is left with a
\* live signal; a run whose signal is raised sends nothing more and changes
\* neither the fields nor the store when it returns.
C13_ResetRestoresInitialState ==
  [][/\ lastCall' = "reset"
        => /\ state' = InitialState
           /\ abortRef' = 0
           /\ \A r \in 1..Len(runs') : runs'[r].pc # "done" => runs'[r].aborted
     /\ \A r \in 1..Len(runs) :
          (runs[r].aborted /\ Len(runs') = Len(runs) /\ runs'[r] # runs[r])
          => /\ runs'[r].pc = "done"
             /\ r = Len(runs) => runs'[r].sent = runs[r].sent
             /\ state' = state /\ store' = store]_vars

C13_Witness ==
  /\ lastCall = "reset"
  /\ state = InitialState
  /\ Len(runs) > 0
  /\ Latest.aborted /\ Latest.canceledAt = "none"
  /\ Latest.outcome = "canceled"
  /\ Latest.sent # {}
  /\ Latest.sent # Latest.succ

\* ---- C14 -------------------------------------------------------------------
\* the transition table of the status field; a continuation that calls
\* setState several times before it suspends walks a chain of run transitions
Statuses ==
  {"idle", "initializing", "uploading", "retrying", "finalizing", "done",
   "error", "canceled"}

TerminalStatuses == {"done", "error", "canceled"}

TableRun(a, b) ==
  \/ a = "initializing" /\ b = "uploading"
  \/ a = "uploading" /\ b = "retrying"
  \/ a = "retrying" /\ b = "uploading"
  \/ a = "uploading" /\ b = "finalizing"
  \/ a = "finalizing" /\ b = "done"
  \/ a \in {"initializing", "uploading", "retrying", "finalizing"} /\ b = "error"

TableRunChain(a, b) ==
  \/ TableRun(a, b)
  \/ \E m \in Statuses : TableRun(a, m) /\ TableRun(m, b)

TableStart(a, b) ==
  /\ a \in {"idle", "error", "canceled", "done"}
  /\ b = "initializing" \/ TableRunChain("initializing", b)

TableCancel(a, b) == a \notin TerminalStatuses /\ b = "canceled"

TableReset(a, b) == b = "idle"

\* C14: every step that changes status is a transition of the table: start()
\* from idle, error, canceled or done to initializing, the run's own
\* transitions, cancel() from a non-terminal status to canceled, reset() from
\* any status to idle; there is no other change of status.
C14_StatusFollowsTable ==
  [][state'.status # state.status
     => \/ /\ lastCall' = "start" /\ Len(runs') > Len(runs)
           /\ TableStart(state.status, state'.status)
        \/ /\ lastCall' = lastCall /\ Len(runs') = Len(runs)
           /\ TableRunChain(state.status, state'.status)
        \/ /\ lastCall' = "cancel" /\ Len(runs') = Len(runs)
           /\ TableCancel(state.status, state'.status)
        \/ /\ lastCall' = "reset" /\ Len(runs') = Len(runs)
           /\ TableReset(state.status, state'.status)]_vars

\* ---- C15 -------------------------------------------------------------------
\* C15: done, error and canceled are left only by start() or reset(): a step
\* that changes a terminal status is one of these two calls, so a cancel()
\* called in done or error leaves the status as it is.
C15_TerminalUntilStartOrReset ==
  [][(state.status \in TerminalStatuses /\ state'.status # state.status)
     => \/ lastCall' = "start" /\ Len(runs') > Len(runs)
        \/ lastCall' = "reset" /\ state' = InitialState]_vars

\* ---- C16 -------------------------------------------------------------------
\* C16: a chunk is sent at most 1 + MAX_RETRIES = 6 times; a retry is
\* scheduled only while fewer than 6 attempts were made, the failure of the
\* 6th attempt ends the run with the error reported to the caller, and an
\* attempt answered 2xx ends the sending of that chunk at once.
C16_AtMostSixAttempts ==
  [][\A r \in 1..Len(runs) :
       Len(runs') = Len(runs)
       => LET a == runs[r]
              b == runs'[r]
          IN /\ b.attempts <= 1 + MAX_RETRIES
             /\ (a.pc = "fetch" /\ b.pc = "sleep") => a.attempts <= MAX_RETRIES
             /\ (a.outcome = "running" /\ b.outcome = "chunkError")
                => /\ a.attempts = 1 + MAX_RETRIES
                   /\ b.sent = a.sent
                   /\ state'.status = "error" /\ state'.error = "chunk failed"
             /\ b.succ # a.succ
                => /\ a.pc = "fetch" /\ a.attempts \in 1..(1 + MAX_RETRIES)
                   /\ b.succ = a.succ \cup {a.chunkIndex}
                   /\ b.attempts = 0
                   /\ b.pc \in {"buf", "finalize"}
                   /\ b.pc = "buf" => b.chunkIndex > a.chunkIndex]_vars

C16_Witness ==
  /\ Len(runs) > 0
  /\ Latest.outcome = "chunkError"
  /\ Latest.attempts = 1 + MAX_RETRIES
  /\ Latest.retryCount = MAX_RETRIES
  /\ Latest.succ # {}
  /\ state.status = "error"

\* ---- C17 -------------------------------------------------------------------
ExpectedDelays == <<1000, 2000, 4000, 8000, 16000>>

\* C17: the sleep before retry k of a chunk (k = 1..5) is requested for
\* min(1000 * 2^(k-1), 30000) ms, that is 1000, 2000, 4000, 8000, 16000 in
\* this order; every failed attempt but the 6th is followed by a sleep, and
\* no delay is requested before the first attempt of a chunk.
C17_BackoffDelays ==
  [][\A r \in 1..Len(runs) :
       Len(runs') = Len(runs)
       => LET a == runs[r]
              b == runs'[r]
          IN /\ b.pc = "sleep"
                => /\ b.retryCount \in 1..MAX_RETRIES
                   /\ b.attempts = b.retryCount
                   /\ b.delay = Min(1000 * 2^(b.retryCount - 1), 30000)
                   /\ b.delay = ExpectedDelays[b.retryCount]
             /\ (a.pc = "fetch" /\ b.pc = "sleep")
                => b.retryCount = a.retryCount + 1
             /\ (a.pc = "fetch" /\ b.pc # "fetch" /\ ~b.aborted /\ b.succ = a.succ)
                => IF a.attempts <= MAX_RETRIES
                   THEN b.pc = "sleep"
                   ELSE b.pc = "done" /\ b.delay = a.delay
             /\ b.attempts = 0 => (b.delay = 0 /\ b.pc # "sleep")]_vars

C17_Witness ==
  /\ Len(runs) > 0
  /\ Latest.pc = "sleep"
  /\ Latest.retryCount = MAX_RETRIES
  /\ Latest.delay = 16000
  /\ Latest.chunkIndex > 0

\* ---- C18 -------------------------------------------------------------------
\* C18: once a run's signal is raised the run sends no chunk again, keeps
\* its retry count (the retry callback is not invoked), and its next step
\* is its return with the cancellation outcome, which leaves status, error
\* and every other field as they are, whatever the retry count was.
C18_CancelIsNeverRetried ==
  [][\A r \in 1..Len(runs) :
       (runs[r].aborted /\ Len(runs') = Len(runs))
       => LET a == runs[r]
              b == runs'[r]
          IN /\ b.sent \subseteq a.sent
             /\ b.attempts <= a.attempts
             /\ b.retryCount <= a.retryCount
             /\ b.pc \notin {"fetch", "sleep"} \/ b = a
             /\ b # a
                => /\ b.pc = "done"
                   /\ b.outcome \in {"canceled", "returned"}
                   /\ state'.status = state.status
                   /\ state'.error = state.error]_vars

C18_Witness ==
  /\ canceledRun > 0
  /\ runs[canceledRun].canceledAt = "fetch"
  /\ runs[canceledRun].retryCount = MAX_RETRIES
  /\ runs[canceledRun].attempts = 1 + MAX_RETRIES
  /\ runs[canceledRun].outcome = "canceled"
  /\ state.status = "canceled"
  /\ state.error = "null"

\* ---- C19 -------------------------------------------------------------------
\* C19: the backoff sleep is a cancellation point: raising the signal ends a
\* sleeping transport call in the same step, so no run is ever found in its
\* backoff sleep with its signal raised, waiting for the timer.
C19_SleepIsCancellationPoint ==
  \A r \in 1..Len(runs) : ~(runs[r].pc = "sleep" /\ runs[r].aborted)

\* ---- C20 -------------------------------------------------------------------
\* C20: the step in which a chunk is answered 2xx leaves the index of that
\* chunk in the persisted record of the run's session, in a fresh run and in
\* a resumed one, whether or not the resume found a matching record.
C20_SuccessIsRecorded ==
  [][\A r \in 1..Len(runs) :
       (Len(runs') = Len(runs) /\ runs'[r].succ # runs[r].succ)
       => runs[r].chunkIndex \in
            Range(loadUploadState(store', runs[r].sessionId).uploadedChunks)]_vars

\* ---- C22 -------------------------------------------------------------------
\* C22: a run issues its finalize request only when every chunk is seeded
\* or was answered 2xx, with status finalizing, and at most once; the step of
\* the 2xx finalize answer removes the session's record and sets status
\* done, progress 1 and uploadedBytes = fileSize; status becomes done in no
\* other step.
C22_FinalizeThenDone ==
  [][/\ \A r \in 1..Len(runs') :
          LET b == runs'[r] IN
          /\ b.finalizes <= 1
          /\ (b.pc = "finalize" /\ ~b.aborted)
             => /\ state'.status = "finalizing"
                /\ b.finalizes = 1
                /\ AllChunks(b.file) \subseteq Range(b.uploadedChunkIndices) \cup b.succ
     /\ \A r \in 1..Len(runs) :
          (Len(runs') = Len(runs) /\ runs[r].pc = "finalize"
             /\ runs'[r].outcome = "done")
          => /\ loadUploadState(store', runs[r].sessionId) = Absent
             /\ state'.status = "done"
             /\ state'.progress = One
             /\ state'.uploadedBytes = runs[r].file
             /\ runs'[r].finalizes = 1
     /\ (state'.status = "done" /\ state.status # "done")
        => \E r \in 1..Len(runs) :
             /\ Len(runs') = Len(runs)
             /\ runs[r].pc = "finalize" /\ ~runs[r].aborted
             /\ runs'[r].outcome = "done"]_vars

C22_Witness ==
  /\ Len(runs) > 0
  /\ Latest.outcome = "done"
  /\ Latest.succ = AllChunks(Latest.file)
  /\ TotalChunks(Latest.file) = 3
  /\ Latest.finalizes = 1
  /\ state.status = "done"
  /\ state.progress = One
  /\ state.uploadedBytes = Latest.file
  /\ loadUploadState(store, Latest.sessionId) = Absent

\* ---- C23 -------------------------------------------------------------------
\* C23: the step in which the finalize request is rejected ends the run with
\* status error, an error message and an empty failedChunks, after a single
\* finalize request, and leaves the session's record in place with the
\* index of every chunk of the file in it.
C23_FinalizeErrorKeepsFullRecord ==
  [][\A r \in 1..Len(runs) :
       (Len(runs') = Len(runs) /\ runs[r].pc = "finalize"
          /\ runs'[r].outcome = "finalizeError")
       => /\ state'.status = "error"
          /\ state'.error # "null"
          /\ state'.failedChunks = <<>>
          /\ runs'[r].finalizes = 1
          /\ runs'[r].pc = "done"
          /\ store' = store
          /\ AllChunks(runs[r].file) \subseteq
               Range(loadUploadState(store', runs[r].sessionId).uploadedChunks)]_vars

\* ---- C24 -------------------------------------------------------------------
\* C24: the step in which the init request of a fresh start() is rejected
\* ends the run with status error and writes no record; a run that ended
\* this way has no session, sent no chunk and no finalize request, and
\* takes no further step (the init request is not repeated).
C24_InitErrorEndsRun ==
  [][\A r \in 1..Len(runs) :
       Len(runs') = Len(runs)
       => LET a == runs[r]
              b == runs'[r]
          IN /\ (a.outcome = "running" /\ b.outcome = "initError")
                => /\ a.pc = "init" /\ a.resume = 0
                   /\ state'.status = "error"
                   /\ state'.error # "null"
                   /\ store' = store
                   /\ nextSid' = nextSid
             /\ b.outcome = "initError"
                => /\ b.pc = "done"
                   /\ b.sessionId = 0
                   /\ b.sent = {} /\ b.attempts = 0 /\ b.finalizes = 0
             /\ a.outcome = "initError" => b = a]_vars

C24_Witness ==
  /\ Len(runs) = 2
  /\ Latest.outcome = "initError"
  /\ Latest.resume = 0
  /\ TotalChunks(Latest.file) = 3
  /\ state.status = "error"
  /\ \E s \in SessionIds : loadUploadState(store, s) # Absent

\* ---- C25 -------------------------------------------------------------------
\* C25: when the init request of a fresh start() is rejected, no session
\* exists: the caller-visible sessionId is null after that step, whatever
\* session an earlier run of the instance had.
C25_InitErrorLeavesNoSession ==
  [][\A r \in 1..Len(runs) :
       (Len(runs') = Len(runs) /\ runs[r].outcome = "running"
          /\ runs'[r].outcome = "initError")
       => state'.sessionId = 0]_vars

\* ---- C26 -------------------------------------------------------------------
\* the runs whose chunk request is in flight (an aborted request is not)
InFlight(rs) == {r \in 1..Len(rs) : rs[r].pc = "fetch" /\ ~rs[r].aborted}

\* C26: at most one chunk request is in flight at any time, and the step
\* that sends chunk i finds every chunk below i seeded or answered 2xx and
\* no chunk above i sent, so the indices a run sends never decrease and
\* each new index is larger than all before it.
C26_SendsAreSequential ==
  [][/\ Cardinality(InFlight(runs')) <= 1
     /\ \A r \in 1..Len(runs) :
          (Len(runs') = Len(runs) /\ runs[r].pc = "buf" /\ runs'[r].pc = "fetch")
          => LET a == runs[r]
                 completed == Range(a.uploadedChunkIndices) \cup a.succ
             IN /\ \A j \in 0..(a.chunkIndex - 1) : j \in completed
                /\ a.chunkIndex \notin completed
                /\ \A j \in a.sent : j <= a.chunkIndex
                /\ runs'[r].sent = a.sent \cup {a.chunkIndex}]_vars

C26_Witness ==
  /\ Len(runs) > 0
  /\ Latest.pc = "fetch" /\ ~Latest.aborted
  /\ Latest.chunkIndex = 2
  /\ Latest.uploadedChunkIndices = <<0>>
  /\ Latest.succ = {1}
  /\ Latest.sent = {1, 2}

\* ---- C27 -------------------------------------------------------------------
\* C27: once a later start() has begun, every earlier run is finished or
\* has its signal raised, and a step of an earlier run sends no chunk and
\* changes neither the store nor the session state.
C27_EarlierRunIsTornDown ==
  [][/\ \A r \in 1..(Len(runs') - 1) : runs'[r].pc = "done" \/ runs'[r].aborted
     /\ \A r \in 1..(Len(runs) - 1) :
          (Len(runs') = Len(runs) /\ runs'[r] # runs[r])
          => /\ runs'[r].sent \subseteq runs[r].sent
             /\ store' = store
             /\ state' = state]_vars

\* ---- C28 -------------------------------------------------------------------
\* the run is in flight with a live signal
Live(run) == run.pc # "done" /\ ~run.aborted

\* C28: uploadedBytes never exceeds totalBytes, and after a start() and after
\* every step taken while the latest run is live, in status uploading,
\* retrying, finalizing, error or canceled, uploadedBytes is the sum of the
\* byte lengths of the seeded chunks and of the chunks answered 2xx in the
\* run; a cancel() leaves uploadedBytes as it is.
C28_UploadedBytesIsSumOfChunks ==
  [][/\ state'.uploadedBytes <= state'.totalBytes
     /\ (/\ Len(runs') > 0
         /\ \/ Len(runs') > Len(runs)
            \/ /\ Len(runs') = Len(runs)
               /\ Live(Latest)
               /\ runs'[Len(runs)] # Latest
         /\ state'.status \in {"uploading", "retrying", "finalizing", "error", "canceled"})
        => LET b == runs'[Len(runs')] IN
           /\ state'.totalBytes = b.file
           /\ state'.uploadedBytes =
                SumByteLength(Range(b.uploadedChunkIndices) \cup b.succ, b.file)
     /\ (state'.status = "canceled" /\ state.status # "canceled")
        => state'.uploadedBytes = state.uploadedBytes]_vars

C28_Witness ==
  /\ Len(runs) > 0
  /\ Live(Latest)
  /\ state.status = "retrying"
  /\ Latest.uploadedChunkIndices = <<0>>
  /\ Latest.succ = {1}
  /\ Latest.chunkIndex = 2
  /\ state.uploadedBytes = 2 * DEFAULT_CHUNK_BYTES
  /\ state.totalBytes = 5 * HalfChunk

\* ---- C29 -------------------------------------------------------------------
\* C29: the chunk count is ceil(fileSize / chunkSize); the ranges cut so far
\* start at 0, each begins where the one before ends, none is empty, all
\* but the last are chunkSize long and the last ends at fileSize with length
\* fileSize - (totalChunks - 1) * chunkSize; once all are cut, every byte of
\* [0, fileSize) lies in exactly one range.
C29_ChunksPartitionFile ==
  LET fs == slicer.fileSize
      cs == slicer.chunkSize
      n == TotalChunksOf(fs, cs)
      rg == slicer.ranges
      k == Len(rg)
  IN /\ n * cs >= fs
     /\ n = 0 <=> fs = 0
     /\ n > 0 => (n - 1) * cs < fs
     /\ k <= n
     /\ \A i \in 1..k :
          /\ rg[i][1] = (i - 1) * cs
          /\ rg[i][1] < rg[i][2]
          /\ rg[i][2] <= fs
          /\ i > 1 => rg[i][1] = rg[i - 1][2]
          /\ i < n => rg[i][2] - rg[i][1] = cs
          /\ i = n => /\ rg[i][2] = fs
                      /\ rg[i][2] - rg[i][1] = fs - (n - 1) * cs
                      /\ fs % cs = 0 => rg[i][2] - rg[i][1] = cs
     /\ (k = n /\ fs <= MaxFileBytes)
        => \A x \in 0..(fs - 1) :
             Cardinality({i \in 1..k : rg[i][1] <= x /\ x < rg[i][2]}) = 1

C29_Witness ==
  /\ slicer.fileSize = 5 * HalfChunk
  /\ slicer.chunkSize = DEFAULT_CHUNK_BYTES
  /\ slicer.chunkIndex = 3
  /\ slicer.ranges = <<<<0, DEFAULT_CHUNK_BYTES>>,
                       <<DEFAULT_CHUNK_BYTES, 2 * DEFAULT_CHUNK_BYTES>>,
                       <<2 * DEFAULT_CHUNK_BYTES, 5 * HalfChunk>>>>

\* ---- C30 -------------------------------------------------------------------
\* C30: from one state to the next an existing record keeps every index it
\* holds, unless the step is the reset() of its session or the 2xx finalize
\* answer of a run of its session, which remove the record.
C30_RecordOnlyGrows ==
  [][\A s \in SessionIds :
       LET old == loadUploadState(store, s)
           new == loadUploadState(store', s)
       IN old # Absent
          => \/ /\ new # Absent
                /\ new.sessionId = old.sessionId
                /\ Range(old.uploadedChunks) \subseteq Range(new.uploadedChunks)
             \/ /\ new = Absent
                /\ \/ lastCall' = "reset" /\ state.sessionId = s
                      /\ state' = InitialState
                   \/ \E r \in 1..Len(runs) :
                        /\ Len(runs') = Len(runs)
                        /\ runs[r].pc = "finalize" /\ runs[r].sessionId = s
                        /\ runs'[r].outcome = "done"]_vars

C30_Witness ==
  /\ Len(runs) = 2
  /\ Latest.resume # 0
  /\ Latest.uploadedChunkIndices = <<0>>
  /\ Latest.succ = {1}
  /\ Latest.outcome = "chunkError"
  /\ loadUploadState(store, Latest.sessionId).uploadedChunks = <<0, 1>>

\* ---- C21 -------------------------------------------------------------------
\* C21: a storage call that fails during start() is ignored: the step in
\* which a run meets its first storage failure does not set status error
\* and leaves the run going (or done, when it was the last call), and a run
\* that met a storage failure ends only as a run can end without one: done,
\* a chunk or finalize error, or canceled.
C21_StorageFailureIsIgnored ==
  [][\A r \in 1..Len(runs') :
       LET b == runs'[r] IN
       b.storageFailed
       => /\ b.outcome \in {"running", "done", "chunkError", "finalizeError",
                            "canceled"}
          /\ (r > Len(runs) \/ ~runs[r].storageFailed)
             => /\ state'.status # "error"
                /\ b.outcome \in {"running", "done"}]_vars

\* ---- C31 -------------------------------------------------------------------
\* a request is sent with the run's local sessionId: the x-session-id header
\* of the chunk request, the body of the finalize request
EmptyRecord(sessionId, fileSize) ==
  [sessionId |-> sessionId, fileSize |-> fileSize, uploadedChunks |-> <<>>]

\* C31: a start() with resumeSessionId never waits for an init answer, draws
\* no new session id, and issues each chunk request and its finalize request
\* with resumeSessionId; a start() without it issues its init request in the
\* start step and never again, has no session until the answer, and in the
\* step of the 2xx answer takes the returned id, stores an empty record of
\* the file for it and keeps that id for every later request.
C31_ResumeSkipsInit ==
  [][/\ Len(runs') > Len(runs)
        => LET b == runs'[Len(runs')] IN
           /\ nextSid' = nextSid /\ store' = store
           /\ IF b.resume # 0
              THEN b.pc # "init" /\ b.sessionId = b.resume
              ELSE /\ b.pc = "init" /\ b.sessionId = 0
                   /\ b.sent = {} /\ b.finalizes = 0
     /\ \A r \in 1..Len(runs) :
          Len(runs') = Len(runs)
          => LET a == runs[r]
                 b == runs'[r]
             IN /\ b.pc = "init" => (a.pc = "init" /\ b.resume = 0)
                /\ a.resume # 0 => nextSid' = nextSid
                /\ (a.sessionId # 0 /\ b.outcome # "returned")
                   => b.sessionId = a.sessionId
                /\ (b.sent # a.sent \/ b.finalizes # a.finalizes)
                   => /\ b.sessionId # 0
                      /\ a.resume # 0 => b.sessionId = a.resume
                /\ (a.pc = "init" /\ b.outcome = "running" /\ b.pc # "init")
                   => /\ a.sessionId = 0
                      /\ b.sessionId = nextSid
                      /\ nextSid' = nextSid + 1
                      /\ loadUploadState(store, b.sessionId) = Absent
                      /\ loadUploadState(store', b.sessionId) =
                           EmptyRecord(b.sessionId, a.file)]_vars

\* a resume, run after a fresh start had drawn an id, sent chunks and reached
\* its finalize request under the resumed id
C31_Witness ==
  /\ Len(runs) = 2
  /\ Latest.resume # 0
  /\ Latest.sessionId = Latest.resume
  /\ nextSid = Latest.resume + 1
  /\ Latest.pc = "finalize"
  /\ Latest.sent # {}
  /\ Latest.finalizes = 1

\* ---- C32 -------------------------------------------------------------------
\* the run is sending, or about to send again, a chunk that failed an attempt
Retrying(run) ==
  Live(run) /\ run.pc \in {"buf", "fetch", "sleep"} /\ run.retryCount >= 1

\* C32: status is retrying exactly while a live run is retrying a chunk, on
\* the chunk shown as currentChunk: the failed attempt that schedules a retry
\* sets it, the sleep and the retry attempts keep it, and the 2xx answer to
\* a retried chunk sets uploading (followed at once by finalizing when it
\* was the last chunk); a chunk on its first attempt is sent in uploading.
C32_RetryingWhileRetried ==
  [][/\ state'.status = "retrying"
        <=> \E r \in 1..Len(runs') : Retrying(runs'[r])
     /\ \A r \in 1..Len(runs') :
          LET b == runs'[r] IN
          /\ Retrying(b) => state'.currentChunk = b.chunkIndex
          /\ (Live(b) /\ b.pc \in {"buf", "fetch"} /\ b.retryCount = 0)
             => state'.status = "uploading"
     /\ \A r \in 1..Len(runs) :
          Len(runs') = Len(runs)
          => LET a == runs[r]
                 b == runs'[r]
             IN /\ (a.pc = "fetch" /\ b.pc = "sleep")
                   => /\ state'.status = "retrying"
                      /\ b.retryCount = a.retryCount + 1
                /\ (Retrying(a) /\ b.succ # a.succ)
                   => /\ b.retryCount = 0
                      /\ state'.status =
                           IF b.pc = "buf" THEN "uploading" ELSE "finalizing"]_vars

\* the third attempt of chunk 1 is in flight, chunk 0 having been delivered
C32_Witness ==
  /\ Len(runs) > 0
  /\ Retrying(Latest)
  /\ Latest.pc = "fetch"
  /\ Latest.retryCount = 2
  /\ Latest.chunkIndex = 1
  /\ Latest.succ = {0}
  /\ state.status = "retrying"
  /\ state.currentChunk = 1

\* ---- C33 -------------------------------------------------------------------
\* C33: the wizard is in phase "ready", or renders View Preview, only when
\* status is done and the latest run's single finalize request was answered
\* 2xx; no other status gives phase "ready", validating or not.
C33_NoPrematureReady ==
  /\ (phase = "ready" \/ ViewPreview)
     => /\ state.status = "done"
        /\ Len(runs) > 0
        /\ Latest.outcome = "done"
        /\ Latest.finalizes = 1
  /\ state.status # "done" => (phase # "ready" /\ ~ViewPreview)
  /\ \A st \in Statuses \ {"done"} : \A v \in BOOLEAN :
       getPhaseFromStatus(st, v) # "ready"

\* the wizard shows "ready" and View Preview after the upload of its file
C33_Witness ==
  /\ phase = "ready"
  /\ ViewPreview
  /\ Len(runs) > 0
  /\ Latest.outcome = "done"
  /\ Latest.file = wizard.file
  /\ Latest.succ = AllChunks(Latest.file)
  /\ TotalChunks(Latest.file) = 3

\* ---- C34 -------------------------------------------------------------------
\* C34: the Cancel button is enabled only while an upload is in progress,
\* that is in status initializing, uploading, retrying or finalizing; it is
\* disabled in idle, done, error and canceled, also while the selected file
\* is being validated.
C34_CancelOnlyInProgress ==
  isBusy
  => state.status \in {"initializing", "uploading", "retrying", "finalizing"}

\* ---- C35 -------------------------------------------------------------------
StrictlyIncreasing(s) == \A i \in 1..(Len(s) - 1) : s[i] < s[i + 1]

\* C35: after every call of updateUploadedChunks on an existing record the
\* stored list is strictly increasing and holds exactly the indices of the
\* first list and the indices passed so far; a call with an index the list
\* already holds leaves the store as it is, and no call changes the
\* record's sessionId or fileSize.
C35_MarkIsIdempotentSortedInsert ==
  [][marker.initial # Absent
     => LET old == loadUploadState(store, marker.sessionId)
            new == loadUploadState(store', marker.sessionId)
        IN /\ new # Absent
           /\ StrictlyIncreasing(new.uploadedChunks)
           /\ Range(new.uploadedChunks) =
                Range(marker.initial.uploadedChunks) \cup marker'.marked
           /\ marker'.chunkIndex \in Range(old.uploadedChunks) => store' = store
           /\ marker'.chunkIndex \notin Range(old.uploadedChunks)
              => Len(new.uploadedChunks) = Len(old.uploadedChunks) + 1
           /\ new.sessionId = old.sessionId /\ new.fileSize = old.fileSize]_vars

\* index 0 was marked after index 3 on a record that began with <<1>>
C35_Witness ==
  /\ marker.initial # Absent
  /\ marker.initial.uploadedChunks = <<1>>
  /\ marker.marked = {0, 3}
  /\ marker.chunkIndex = 0
  /\ loadUploadState(store, marker.sessionId).uploadedChunks = <<0, 1, 3>>

\* ---- C37 -------------------------------------------------------------------
\* C37: a chunk answered 2xx in a session that has no record leaves the
\* store as it is; a record that is absent stays absent through every step
\* but the init answer that creates it, so one removed by reset() or by a
\* 2xx finalize is not brought back by a later chunk success.
C37_MarkNeverCreatesRecord ==
  [][/\ \A r \in 1..Len(runs) :
          (/\ Len(runs') = Len(runs)
           /\ runs'[r].succ # runs[r].succ
           /\ loadUploadState(store, runs[r].sessionId) = Absent)
          => store' = store
     /\ \A s \in SessionIds :
          (loadUploadState(store, s) = Absent /\ loadUploadState(store', s) # Absent)
          => /\ \A r \in 1..Len(runs) : runs'[r].succ = runs[r].succ
             /\ nextSid = s /\ nextSid' = s + 1
             /\ loadUploadState(store', s).uploadedChunks = <<>>]_vars

\* the record of a session was removed by its finalize; a resume of that
\* session had chunks answered 2xx and the record is still absent
C37_Witness ==
  /\ Len(runs) = 2
  /\ Latest.resume # 0
  /\ Latest.found = Absent
  /\ Latest.succ = {0, 1}
  /\ loadUploadState(store, Latest.sessionId) = Absent

\* ---- C36 -------------------------------------------------------------------
\* C36: a start(file, sessionId) that follows a run of the same file and
\* session ended by a rejected finalize, with no other call in between,
\* finds every index in the record: it seeds them all, sends no chunk and
\* goes to the finalize request in the start step.
C36_RetryAfterFinalizeErrorOnlyFinalizes ==
  [][(/\ Len(runs') > Len(runs)
      /\ Len(runs) > 0
      /\ Latest.outcome = "finalizeError"
      /\ lastCall = "start"
      /\ runs'[Len(runs')].resume = Latest.sessionId
      /\ runs'[Len(runs')].file = Latest.file)
     => LET b == runs'[Len(runs')] IN
        /\ Range(b.uploadedChunkIndices) = AllChunks(b.file)
        /\ b.pc = "finalize"
        /\ b.sent = {} /\ b.attempts = 0
        /\ b.finalizes = 1]_vars

\* ---- C38 -------------------------------------------------------------------
\* C38: while status is finalizing or done the latest run is the run of the
\* current file, every index 0..totalChunks-1 of that file is in its seeded
\* set or was answered 2xx in it, and no chunk is listed as failed; a run
\* that has issued its finalize request has every chunk seeded or answered.
C38_FinalizingMeansAllChunksDone ==
  /\ state.status \in {"finalizing", "done"}
     => /\ Len(runs) > 0
        /\ Latest.file = state.totalBytes
        /\ Latest.finalizes = 1
        /\ \A i \in 0..(TotalChunks(Latest.file) - 1) :
             i \in Range(Latest.uploadedChunkIndices) \/ i \in Latest.succ
        /\ Latest.failedChunks = <<>>
        /\ state.failedChunks = <<>>
  /\ \A r \in 1..Len(runs) :
       runs[r].finalizes > 0
       => /\ runs[r].failedChunks = <<>>
          /\ \A i \in 0..(TotalChunks(runs[r].file) - 1) :
               i \in Range(runs[r].uploadedChunkIndices) \/ i \in runs[r].succ

\* a resume seeded with chunk 0 delivered chunks 1 and 2 and is finalizing
C38_Witness ==
  /\ state.status = "finalizing"
  /\ Len(runs) > 0
  /\ Latest.pc = "finalize"
  /\ Latest.uploadedChunkIndices = <<0>>
  /\ Latest.succ = {1, 2}
  /\ TotalChunks(Latest.file) = 3

\* ---- C39 -------------------------------------------------------------------
\* C39: when every pending await ends, every run of start() returns for
\* good, after which it issues no request, and the status is outside
\* initializing, uploading, retrying and finalizing again and again: a status
\* in progress is always followed by done, error, canceled or idle.
C39_EveryRunTerminates ==
  /\ \A r \in 1..MaxRuns : <>[](Len(runs) < r \/ runs[r].pc = "done")
  /\ []<>(state.status \in {"done", "error", "canceled", "idle"})

\* two runs have returned, the second after the sixth attempt of a chunk
C39_Witness ==
  /\ Len(runs) = 2
  /\ \A r \in 1..2 : runs[r].pc = "done"
  /\ Latest.outcome = "chunkError"
  /\ Latest.attempts = 1 + MAX_RETRIES
  /\ Latest.resume # 0
  /\ state.status = "error"

\* ---- C40 -------------------------------------------------------------------
\* C40: under the wizard a start() is called only in idle, error, canceled
\* or done, with the wizard's file, and as a resume only in error with the
\* session shown; at that moment every earlier run has returned or has its
\* signal raised, so at most one run is live, and a step of an earlier run
\* sends no chunk and changes neither the store nor the session state.
C40_WizardKeepsOneLiveRun ==
  [][/\ Len(runs') > Len(runs)
        => LET b == runs'[Len(runs')] IN
           /\ state.status \in {"idle", "error", "canceled", "done"}
           /\ b.file = wizard.file
           /\ b.resume # 0 => (state.status = "error" /\ b.resume = state.sessionId)
           /\ \A r \in 1..Len(runs) : runs[r].pc = "done" \/ runs[r].aborted
     /\ Cardinality({r \in 1..Len(runs') : Live(runs'[r])}) <= 1
     /\ \A r \in 1..(Len(runs') - 1) : ~Live(runs'[r])
     /\ \A r \in 1..(Len(runs) - 1) :
          (Len(runs') = Len(runs) /\ runs'[r] # runs[r])
          => /\ runs[r].aborted
             /\ runs'[r].pc = "done"
             /\ runs'[r].sent \subseteq runs[r].sent
             /\ store' = store
             /\ state' = state]_vars

\* a run cancelled during a chunk request has not left its await yet while
\* the run started after it has delivered a chunk
C40_Witness ==
  /\ Len(runs) = 2
  /\ runs[1].pc = "unwinding" /\ runs[1].aborted
  /\ Live(Latest)
  /\ Latest.file = wizard.file
  /\ Latest.succ # {}
  /\ state.status = "uploading"

====
